---- MODULE Spec2Model ----
(***************************************************************************)
(* Model of src/src/lib.rs: ResettableWrapper<T>, a value with a           *)
(* copy-on-first-write stash, and its Resettable implementation.           *)
(*                                                                         *)
(* T is modelled as the integers 0..MaxVal, with a clone() whose calls are *)
(* counted.  Option<T> is a sequence: <<>> is None and <<v>> is Some(v).   *)
(* A wrapper is the record [inner, stash] of the struct's two fields.      *)
(***************************************************************************)
EXTENDS Integers, Sequences, FiniteSets, TLC

\* Largest value of T in the model: T = 0..MaxVal.
MaxVal == 2

\* Number of operations performed after construction in one behaviour.
MaxOps == 6

Values == 0..MaxVal

---------------------------------------------------------------------------
(* Option<T> *)

None == <<>>

Some(v) == <<v>>

is_none(o) == o = None

is_some(o) == o # None

---------------------------------------------------------------------------
(* T: Clone.  clone() yields an equal value; its calls are counted by the  *)
(* operations that make them.                                              *)

clone(v) == v

---------------------------------------------------------------------------
(* impl<T> ResettableWrapper<T>                                            *)

new(inner) == [inner |-> inner, stash |-> None]

\* Plausible slip: the snapshot is taken eagerly, at construction.
new_eager(inner) == [inner |-> inner, stash |-> Some(inner)]

from(inner) == new(inner)

\* Plausible slip: a read takes the snapshot, as a mutable access does.
deref_stashing(self) ==
    [self |-> [inner |-> self.inner,
               stash |-> IF is_none(self.stash) THEN Some(self.inner)
                         ELSE self.stash],
     out  |-> self.inner]

\* Plausible slip: a read shows the stashed value when there is one.
deref_stashed(self) ==
    [self |-> self,
     out  |-> IF is_some(self.stash) THEN self.stash[1] ELSE self.inner]

\* Deref::deref(&self) -> &T.  self: the wrapper after the call (a shared
\* borrow: as before); out: the value the returned reference reads.
deref(self) == [self |-> self, out |-> self.inner]

\* Plausible slip: the stash is overwritten on every mutable access.
deref_mut_always(self) ==
    [self   |-> [inner |-> self.inner, stash |-> Some(clone(self.inner))],
     clones |-> 1]

\* Plausible slip: the value is cloned on every mutable access, the clone
\* being dropped when a stash is already held.
deref_mut_reclone(self) ==
    [self   |-> [inner |-> self.inner,
                 stash |-> IF is_none(self.stash) THEN Some(clone(self.inner))
                           ELSE self.stash],
     clones |-> 1]

\* DerefMut::deref_mut(&mut self) -> &mut T.  self: the wrapper after the
\* call; clones: the number of calls of T::clone it made.
deref_mut(self) ==
    IF is_none(self.stash)
    THEN [self   |-> [inner |-> self.inner, stash |-> Some(clone(self.inner))],
          clones |-> 1]
    ELSE [self |-> self, clones |-> 0]

\* A write of x through the &mut T that deref_mut returned (&mut self.inner).
assign(self, x) == [self EXCEPT !.inner = x]

\* Plausible slip: the stash is returned when there is one.
into_inner_stashed(self) ==
    IF is_some(self.stash) THEN self.stash[1] ELSE self.inner

into_inner(self) == self.inner

\* Plausible slip: the live value is returned whether or not a stash is held.
reset_inner_live(self) == self.inner

\* Plausible slip: self.stash.unwrap_or_default(), T::default() being 0.
reset_inner_or_default(self) ==
    IF is_some(self.stash) THEN self.stash[1] ELSE 0

\* Plausible slip: self.stash.unwrap(), which panics when no stash is held;
\* the panic is the outcome -1, which is no value of T.
reset_inner_unwrap(self) ==
    IF is_some(self.stash) THEN self.stash[1] ELSE -1

reset_inner(self) ==
    IF is_some(self.stash) THEN self.stash[1] ELSE self.inner

\* Plausible slip: the live value is restored but the stash is not cleared.
reset_keep(self) == [inner |-> reset_inner(self), stash |-> self.stash]

\* Plausible slip: the wrapper is rebuilt from the live value.
reset_live(self) == new(into_inner(self))

\* Resettable::reset(self) -> Self
reset(self) == new(reset_inner(self))

\* Plausible slip: a hand-written Clone that wraps a clone of the live value.
ResettableWrapper_clone_clean(self) ==
    [self |-> new(clone(self.inner)), clones |-> 1]

\* #[derive(Clone)]: Clone::clone(&self) of the wrapper clones both fields.
\* self: the new wrapper; clones: the number of calls of T::clone it made.
ResettableWrapper_clone(self) ==
    [self   |-> [inner |-> clone(self.inner),
                 stash |-> IF is_some(self.stash)
                           THEN Some(clone(self.stash[1])) ELSE None],
     clones |-> IF is_some(self.stash) THEN 2 ELSE 1]

\* Option<T>: PartialEq: both None, or both Some of equal values.
Option_eq(a, b) ==
    \/ is_none(a) /\ is_none(b)
    \/ is_some(a) /\ is_some(b) /\ a[1] = b[1]

\* Plausible slip: equality that looks at the live value only, as Debug and
\* Serialize do.
ResettableWrapper_eq_live(a, b) == a.inner = b.inner

\* #[derive(PartialEq, Eq)]: PartialEq::eq of the wrapper compares both
\* fields, inner and then stash.
ResettableWrapper_eq(a, b) == a.inner = b.inner /\ Option_eq(a.stash, b.stash)

\* Option<T>: Ord: None is less than every Some.
Option_cmp(a, b) ==
    IF is_none(a) /\ is_none(b) THEN "Equal"
    ELSE IF is_none(a) THEN "Less"
    ELSE IF is_none(b) THEN "Greater"
    ELSE IF a[1] < b[1] THEN "Less"
    ELSE IF a[1] > b[1] THEN "Greater"
    ELSE "Equal"

\* #[derive(PartialOrd, Ord)]: Ord::cmp of the wrapper compares inner and,
\* when these are equal, stash.
ResettableWrapper_cmp(a, b) ==
    IF a.inner < b.inner THEN "Less"
    ELSE IF a.inner > b.inner THEN "Greater"
    ELSE Option_cmp(a.stash, b.stash)

\* T: fmt::Debug: the text of a T, here one decimal digit as its ASCII code.
T_fmt(v) == <<v + 48>>

\* Plausible slip: #[derive(Debug)], which writes both fields.
fmt_derived(self) ==
    T_fmt(self.inner) \o
        (IF is_some(self.stash) THEN T_fmt(self.stash[1]) ELSE <<>>)

\* fmt::Debug::fmt(&self, f): the text written to f.
fmt(self) == T_fmt(self.inner)

---------------------------------------------------------------------------
(* mod serde_m.  The external representation of a T is written and read by *)
(* T's own Serialize and Deserialize: here one decimal digit, as its ASCII *)
(* code.  A result is [ok |-> TRUE, value |-> v] or [ok |-> FALSE].        *)

T_serialize(v) == <<v + 48>>

T_deserialize(r) ==
    IF Len(r) = 1 /\ r[1] \in 48..57
    THEN [ok |-> TRUE, value |-> r[1] - 48]
    ELSE [ok |-> FALSE]

\* Plausible slip: the value a reset would restore is written.
serialize_reset(self) == T_serialize(reset_inner(self))

\* Serialize::serialize(&self, serializer)
serialize(self) == T_serialize(self.inner)

\* Deserialize::deserialize(deserializer)
deserialize(r) ==
    LET t == T_deserialize(r) IN
    IF t.ok THEN [ok |-> TRUE, value |-> new(t.value)] ELSE [ok |-> FALSE]

---------------------------------------------------------------------------
(* tests::basic: struct Complex { first, second }, two wrapped fields, with *)
(* its hand-written Resettable and its derived Clone and PartialEq.        *)

\* Plausible slip: a field is carried over instead of being reset.
Complex_reset_first_only(self) ==
    [first |-> reset(self.first), second |-> self.second]

\* impl Resettable for Complex
Complex_reset(self) ==
    [first |-> reset(self.first), second |-> reset(self.second)]

\* #[derive(Clone)] for Complex
Complex_clone(self) ==
    [first  |-> ResettableWrapper_clone(self.first).self,
     second |-> ResettableWrapper_clone(self.second).self]

\* #[derive(PartialEq)] for Complex
Complex_eq(a, b) ==
    /\ ResettableWrapper_eq(a.first, b.first)
    /\ ResettableWrapper_eq(a.second, b.second)

---------------------------------------------------------------------------
(* State.                                                                  *)
(*   w       the wrapper (after it is consumed: as it was when consumed)   *)
(*   alive   the wrapper exists (FALSE once into_inner/reset_inner took it)*)
(*   ret     Some(value) returned by the last deref/into_inner/reset_inner *)
(*   clones  calls of T::clone since the wrapper was built by new/from     *)
(* History, recorded by the actions and read only by the properties.  A    *)
(* wrapper made by clone() carries on the history of the wrapper it was    *)
(* cloned from, except in muts and first, which are the clone's own:       *)
(*   op      the last operation                                            *)
(*   pop     the operation before the last                                 *)
(*   orig    the value the wrapper was built from by new/from              *)
(*   muts    mutable accesses to this wrapper since it was created (by     *)
(*           new, from or clone) or last reset                             *)
(*   first   Some(live value at the first of these accesses)               *)
(*   lmuts   mutable accesses since the wrapper, or the one it was cloned  *)
(*           from, was built by new/from or last reset                     *)
(*   lfirst  Some(live value at the first of these accesses)               *)
(*   writes  mutable accesses since the wrapper was built by new/from      *)
(*   periods dirty periods begun since the wrapper was built by new/from   *)
(*   lastw   Some(value last written through a mutable access)            *)
(*   nops    operations since the start                                    *)
(* The composite of tests::basic:                                          *)
(*   complex   the Complex value being mutated and reset                   *)
(*   original  the Complex it was cloned from, kept untouched              *)
(*   cfirst    history: per field, Some(live value at the first mutable    *)
(*             access since the composite was built or last reset)         *)
(*   cwrote    history: per field, Some(value last written)                *)
(* Serialization:                                                          *)
(*   wire    Some(the external representation last written)                *)
(*   sent    history: Some(the wrapper that was serialized into wire)      *)
(*   rt      history: the last deserialization read what wire holds        *)
(* Two wrappers side by side:                                              *)
(*   pair    the wrappers a and b                                          *)
(*   psrc    history: Some(a as it was when b was cloned from it)          *)
(*   pmuts   history: per wrapper, mutable accesses to it since it was     *)
(*           created (by new or clone) or last reset                       *)
(***************************************************************************)
VARIABLES w, alive, ret, clones, op, pop, orig, muts, first, lmuts, lfirst,
          writes, periods, lastw, nops

VARIABLES complex, original, cfirst, cwrote

VARIABLES wire, sent, rt

VARIABLES pair, psrc, pmuts

\* The single wrapper and its history.
wvars == <<w, alive, ret, clones, orig, muts, first, lmuts, lfirst, writes,
           periods, lastw>>

\* The composite and its history.
cvars == <<complex, original, cfirst, cwrote>>

\* Serialization and its history.
svars == <<wire, sent, rt>>

\* The two wrappers side by side and their history.
pvars == <<pair, psrc, pmuts>>

\* What the operations on the single wrapper leave alone.
xvars == <<cvars, svars, pvars>>

vars == <<w, alive, ret, clones, op, pop, orig, muts, first, lmuts, lfirst,
          writes, periods, lastw, nops, xvars>>

Wrappers == [inner : Values, stash : {None} \cup {Some(v) : v \in Values}]

Ops == {"new", "from", "deref", "deref_mut", "into_inner", "reset_inner",
        "reset", "clone", "complex_clone", "mut_first", "mut_second",
        "complex_reset", "serialize", "deserialize", "deserialize_err",
        "mut_a", "mut_b", "reset_a", "reset_b", "clone_b"}

TypeOK ==
    /\ w \in Wrappers
    /\ alive \in BOOLEAN
    /\ ret \in {None} \cup {Some(v) : v \in Values}
    /\ clones \in 0..(2 * MaxOps)
    /\ op \in Ops
    /\ pop \in Ops \cup {"none"}
    /\ orig \in Values
    /\ muts \in 0..MaxOps
    /\ lmuts \in 0..MaxOps
    /\ lfirst \in {None} \cup {Some(v) : v \in Values}
    /\ writes \in 0..MaxOps
    /\ periods \in 0..MaxOps
    /\ first \in {None} \cup {Some(v) : v \in Values}
    /\ lastw \in {None} \cup {Some(v) : v \in Values}
    /\ nops \in 0..MaxOps

\* The history of a wrapper just constructed from v by operation o.
Fresh(v, o) ==
    /\ alive' = TRUE
    /\ ret' = None
    /\ clones' = 0
    /\ op' = o
    /\ orig' = v
    /\ muts' = 0
    /\ first' = None
    /\ lmuts' = 0
    /\ lfirst' = None
    /\ writes' = 0
    /\ periods' = 0
    /\ lastw' = None

Fields == {"first", "second"}

NoField == [f \in Fields |-> None]

\* The composite, in the behaviours that are about the single wrapper.
CIdle ==
    /\ original = [first |-> from(0), second |-> from(0)]
    /\ complex = original
    /\ cfirst = NoField
    /\ cwrote = NoField

\* Serialization, in the behaviours in which nothing is serialized.
SIdle ==
    /\ wire = None
    /\ sent = None
    /\ rt = FALSE

Sides == {"a", "b"}

\* The two wrappers, in the behaviours that are about something else.
PIdle ==
    /\ pair = [a |-> new(0), b |-> new(0)]
    /\ psrc = None
    /\ pmuts = [s \in Sides |-> 0]

Init ==
    \E v \in Values :
        /\ \/ w = new(v) /\ op = "new"
           \/ w = from(v) /\ op = "from"
        /\ alive = TRUE
        /\ ret = None
        /\ clones = 0
        /\ pop = "none"
        /\ orig = v
        /\ muts = 0
        /\ first = None
        /\ lmuts = 0
        /\ lfirst = None
        /\ writes = 0
        /\ periods = 0
        /\ lastw = None
        /\ nops = 0
        /\ CIdle
        /\ SIdle
        /\ PIdle

\* ResettableWrapper::new(v), once the previous wrapper has been consumed.
New(v) ==
    /\ UNCHANGED xvars
    /\ ~alive
    /\ nops < MaxOps
    /\ w' = new(v)
    /\ Fresh(v, "new")
    /\ pop' = op
    /\ nops' = nops + 1

\* From<T>::from(v), once the previous wrapper has been consumed.
From(v) ==
    /\ UNCHANGED xvars
    /\ ~alive
    /\ nops < MaxOps
    /\ w' = from(v)
    /\ Fresh(v, "from")
    /\ pop' = op
    /\ nops' = nops + 1

\* A read through Deref: *w.
Deref ==
    /\ UNCHANGED xvars
    /\ alive
    /\ nops < MaxOps
    /\ LET r == deref(w) IN
        /\ w' = r.self
        /\ ret' = Some(r.out)
    /\ op' = "deref"
    /\ pop' = op
    /\ nops' = nops + 1
    /\ UNCHANGED <<alive, clones, orig, muts, first, lmuts, lfirst, writes,
                   periods, lastw>>

\* A mutable access through DerefMut and the write made through it: *w = x.
\* (x may be the value already held: an access that changes nothing.)
DerefMut(x) ==
    /\ UNCHANGED xvars
    /\ alive
    /\ nops < MaxOps
    /\ LET r == deref_mut(w) IN
        /\ w' = assign(r.self, x)
        /\ clones' = clones + r.clones
    /\ ret' = None
    /\ op' = "deref_mut"
    /\ pop' = op
    /\ muts' = muts + 1
    /\ first' = IF muts = 0 THEN Some(w.inner) ELSE first
    /\ lmuts' = lmuts + 1
    /\ lfirst' = IF lmuts = 0 THEN Some(w.inner) ELSE lfirst
    /\ writes' = writes + 1
    /\ periods' = IF lmuts = 0 THEN periods + 1 ELSE periods
    /\ lastw' = Some(x)
    /\ nops' = nops + 1
    /\ UNCHANGED <<alive, orig>>

\* w.into_inner(): consumes the wrapper.
IntoInner ==
    /\ UNCHANGED xvars
    /\ alive
    /\ nops < MaxOps
    /\ ret' = Some(into_inner(w))
    /\ alive' = FALSE
    /\ op' = "into_inner"
    /\ pop' = op
    /\ nops' = nops + 1
    /\ UNCHANGED <<w, clones, orig, muts, first, lmuts, lfirst, writes,
                   periods, lastw>>

\* w.reset_inner(): consumes the wrapper.
ResetInner ==
    /\ UNCHANGED xvars
    /\ alive
    /\ nops < MaxOps
    /\ ret' = Some(reset_inner(w))
    /\ alive' = FALSE
    /\ op' = "reset_inner"
    /\ pop' = op
    /\ nops' = nops + 1
    /\ UNCHANGED <<w, clones, orig, muts, first, lmuts, lfirst, writes,
                   periods, lastw>>

\* w = w.reset(): consumes the wrapper and yields the one that replaces it.
Reset ==
    /\ UNCHANGED xvars
    /\ alive
    /\ nops < MaxOps
    /\ w' = reset(w)
    /\ ret' = None
    /\ op' = "reset"
    /\ pop' = op
    /\ muts' = 0
    /\ first' = None
    /\ lmuts' = 0
    /\ lfirst' = None
    /\ nops' = nops + 1
    /\ UNCHANGED <<alive, clones, orig, writes, periods, lastw>>

Next ==
    \/ \E v \in Values : New(v)
    \/ \E v \in Values : From(v)
    \/ Deref
    \/ \E x \in Values : DerefMut(x)
    \/ IntoInner
    \/ ResetInner
    \/ Reset

Spec == Init /\ [][Next]_vars

\* let w = w.clone(): the derived Clone; the clone is the wrapper followed
\* from here on.
Clone ==
    /\ UNCHANGED xvars
    /\ alive
    /\ nops < MaxOps
    /\ LET r == ResettableWrapper_clone(w) IN
        /\ w' = r.self
        /\ clones' = clones + r.clones
    /\ ret' = None
    /\ op' = "clone"
    /\ pop' = op
    /\ muts' = 0
    /\ first' = None
    /\ nops' = nops + 1
    /\ UNCHANGED <<alive, orig, lmuts, lfirst, writes, periods, lastw>>

NextClone ==
    \/ Next
    \/ Clone

\* The wrapper's operations together with the derived Clone.
SpecClone == Init /\ [][NextClone]_vars

---------------------------------------------------------------------------
(* The composite of tests::basic.                                          *)

\* The single wrapper, in the behaviours that are about something else.
WIdle ==
    /\ w = new(0)
    /\ alive = TRUE
    /\ ret = None
    /\ clones = 0
    /\ orig = 0
    /\ muts = 0
    /\ first = None
    /\ lmuts = 0
    /\ lfirst = None
    /\ writes = 0
    /\ periods = 0
    /\ lastw = None

\* let original = Complex { first: a.into(), second: b.into() };
\* let mut complex = original.clone();
InitComplex ==
    /\ WIdle
    /\ SIdle
    /\ PIdle
    /\ \E a, b \in Values :
           original = [first |-> from(a), second |-> from(b)]
    /\ complex = Complex_clone(original)
    /\ cfirst = NoField
    /\ cwrote = NoField
    /\ op = "complex_clone"
    /\ pop = "none"
    /\ nops = 0

\* A mutable access to field f and the write made through it:
\* *complex.f = x.
MutField(f, x) ==
    /\ nops < MaxOps
    /\ complex' = [complex EXCEPT ![f] = assign(deref_mut(@).self, x)]
    /\ cfirst' = [cfirst EXCEPT
                      ![f] = IF is_none(@) THEN Some(complex[f].inner) ELSE @]
    /\ cwrote' = [cwrote EXCEPT ![f] = Some(x)]
    /\ op' = "mut_" \o f
    /\ pop' = op
    /\ nops' = nops + 1
    /\ UNCHANGED <<original, wvars, svars, pvars>>

\* *complex.first = x
MutFirst(x) == MutField("first", x)

\* *complex.second = x
MutSecond(x) == MutField("second", x)

\* let mut complex = complex.reset();
ComplexReset ==
    /\ nops < MaxOps
    /\ complex' = Complex_reset(complex)
    /\ cfirst' = NoField
    /\ op' = "complex_reset"
    /\ pop' = op
    /\ nops' = nops + 1
    /\ UNCHANGED <<original, cwrote, wvars, svars, pvars>>

NextComplex ==
    \/ \E x \in Values : MutFirst(x)
    \/ \E x \in Values : MutSecond(x)
    \/ ComplexReset

SpecComplex == InitComplex /\ [][NextComplex]_vars

---------------------------------------------------------------------------
(* Serialization of the single wrapper.                                    *)

\* What a deserializer may be given: the representation of any T, or input
\* that is no T.
Inputs == {T_serialize(v) : v \in Values} \cup {<<63>>, <<>>}

\* w.serialize(serializer): the representation goes to wire.
Serialize ==
    /\ alive
    /\ nops < MaxOps
    /\ wire' = Some(serialize(w))
    /\ sent' = Some(w)
    /\ ret' = None
    /\ op' = "serialize"
    /\ pop' = op
    /\ nops' = nops + 1
    /\ UNCHANGED <<w, alive, clones, orig, muts, first, lmuts, lfirst, writes,
                   periods, lastw, rt, cvars, pvars>>

\* w = ResettableWrapper::deserialize(deserializer), reading r: on Ok the
\* wrapper read replaces the one held, on Err nothing is made.
Deserialize(r) ==
    /\ nops < MaxOps
    /\ LET d == deserialize(r) IN
           IF d.ok
           THEN /\ w' = d.value
                /\ Fresh(d.value.inner, "deserialize")
                /\ rt' = (wire = Some(r))
           ELSE /\ op' = "deserialize_err"
                /\ rt' = FALSE
                /\ UNCHANGED wvars
    /\ pop' = op
    /\ nops' = nops + 1
    /\ UNCHANGED <<wire, sent, cvars, pvars>>

NextSerde ==
    \/ Next
    \/ Serialize
    \/ \E r \in Inputs : Deserialize(r)

\* The wrapper's operations together with its serialization.
SpecSerde == Init /\ [][NextSerde]_vars

---------------------------------------------------------------------------
(* Two wrappers side by side: a and b, each built by new, mutated and      *)
(* reset on its own; b may be replaced by a clone of a.                    *)

\* let mut a = ResettableWrapper::new(va);
\* let mut b = ResettableWrapper::new(vb);
InitPair ==
    /\ WIdle
    /\ CIdle
    /\ SIdle
    /\ \E va, vb \in Values : pair = [a |-> new(va), b |-> new(vb)]
    /\ psrc = None
    /\ pmuts = [s \in Sides |-> 0]
    /\ op = "new"
    /\ pop = "none"
    /\ nops = 0

\* A mutable access to wrapper s and the write made through it: *s = x.
PairMut(s, x) ==
    /\ nops < MaxOps
    /\ pair' = [pair EXCEPT ![s] = assign(deref_mut(@).self, x)]
    /\ pmuts' = [pmuts EXCEPT ![s] = @ + 1]
    /\ op' = "mut_" \o s
    /\ pop' = op
    /\ nops' = nops + 1
    /\ UNCHANGED <<psrc, wvars, cvars, svars>>

\* s = s.reset()
PairReset(s) ==
    /\ nops < MaxOps
    /\ pair' = [pair EXCEPT ![s] = reset(@)]
    /\ pmuts' = [pmuts EXCEPT ![s] = 0]
    /\ op' = "reset_" \o s
    /\ pop' = op
    /\ nops' = nops + 1
    /\ UNCHANGED <<psrc, wvars, cvars, svars>>

\* b = a.clone()
PairClone ==
    /\ nops < MaxOps
    /\ pair' = [pair EXCEPT !.b = ResettableWrapper_clone(pair.a).self]
    /\ psrc' = Some(pair.a)
    /\ pmuts' = [pmuts EXCEPT !.b = 0]
    /\ op' = "clone_b"
    /\ pop' = op
    /\ nops' = nops + 1
    /\ UNCHANGED <<wvars, cvars, svars>>

NextPair ==
    \/ \E s \in Sides, x \in Values : PairMut(s, x)
    \/ \E s \in Sides : PairReset(s)
    \/ PairClone

SpecPair == InitPair /\ [][NextPair]_vars

---------------------------------------------------------------------------
(* Properties.                                                             *)

Clean(x) == is_none(x.stash)

Dirty(x) == is_some(x.stash)

\* C1 (P2, checkpoint correctness): reset_inner() called after k >= 1
\* mutable accesses returns the value the wrapper was built from, whatever
\* values the accesses wrote.
C1_ResetInnerReturnsPreMutation ==
    (op = "reset_inner" /\ muts >= 1) => (ret = Some(orig) /\ ret = first)

\* reset_inner() after two mutable accesses, neither of which wrote the
\* original value back, has returned the original value.
C1_Witness ==
    /\ op = "reset_inner"
    /\ pop = "deref_mut"
    /\ muts >= 2
    /\ w.inner # orig
    /\ first # Some(w.inner)
    /\ ret = Some(orig)

\* C2 (invariant I1), as stated: the stash is Some(v) exactly when a
\* mutable access to the wrapper has occurred since it was created or last
\* reset, and v is then the live value at the moment of the first such
\* access.  A wrapper created by clone() is a wrapper created.
C2_I1_AsStated ==
    /\ is_some(w.stash) <=> muts >= 1
    /\ is_some(w.stash) => w.stash = first

\* C2 (invariant I1), amended: the stash is Some(v) exactly when a mutable
\* access has occurred since the wrapper, or the wrapper it was cloned from,
\* was built by new/from or last reset, and v is then the live value at the
\* moment of the first such access.
C2_I1 ==
    /\ is_some(w.stash) <=> lmuts >= 1
    /\ is_some(w.stash) => w.stash = lfirst

\* The clone of a wrapper in its second dirty period, accessed twice in it:
\* the clone holds the stash and has not been accessed mutably itself.
C2_Witness ==
    /\ alive
    /\ op = "clone"
    /\ periods >= 2
    /\ lmuts >= 2
    /\ muts = 0
    /\ is_some(w.stash)
    /\ w.stash = lfirst
    /\ w.stash # Some(w.inner)

\* C3 (invariant I2): a mutable access to a wrapper that holds a stash, and
\* the write made through it, leave the stash as it is; the stash of a
\* living wrapper changes again only in reset().
C3_I2 ==
    [][/\ (is_some(w.stash) /\ op' = "deref_mut") => w'.stash = w.stash
       /\ (alive /\ alive' /\ is_some(w.stash) /\ w'.stash # w.stash)
              => op' = "reset"]_vars

\* A second mutable access of a dirty period has written a value other than
\* the stashed one.
C3_Witness ==
    /\ op = "deref_mut"
    /\ pop = "deref_mut"
    /\ muts >= 2
    /\ is_some(w.stash)
    /\ w.stash # lastw
    /\ w.inner = lastw[1]

\* C4 (P3, single snapshot): T::clone is called once on the mutable access
\* that finds the wrapper Clean and by no other operation, so the number of
\* clones equals the number of dirty periods entered.
C4_SingleSnapshot ==
    [][/\ op' \in {"new", "from"} => clones' = 0
       /\ op' = "deref_mut" =>
              clones' = clones + (IF Clean(w) /\ Dirty(w') THEN 1 ELSE 0)
       /\ op' \in {"deref", "reset", "reset_inner", "into_inner"} =>
              clones' = clones
       /\ clones' = periods'
       /\ (periods' = 1 /\ muts' >= 1) => clones' = 1]_vars

\* Three mutable accesses in the first dirty period, one clone.
C4_Witness ==
    /\ op = "deref_mut"
    /\ periods = 1
    /\ muts >= 3
    /\ clones = 1

\* C5 (P4, I3): reset() yields a Clean wrapper and clones nothing; a reset
\* that follows a reset changes nothing, and reset(reset(x)) = reset(x) for
\* the wrapper x of every reachable state.
C5_ResetIdempotent ==
    [][/\ op' = "reset" =>
              /\ Clean(w')
              /\ clones' = clones
              /\ reset(w') = w'
              /\ op = "reset" => w' = w
       /\ reset(reset(w)) = reset(w)
       /\ Clean(reset(w))]_vars

\* A wrapper mutated to another value, then reset twice in a row.
C5_Witness ==
    /\ op = "reset"
    /\ pop = "reset"
    /\ nops = 3
    /\ writes = 1
    /\ clones = 1
    /\ w = [inner |-> orig, stash |-> None]

\* C6 (state machine): Clean at construction and after reset(); Clean to
\* Dirty on a mutable access and on nothing else; a mutable access in Dirty
\* stays Dirty; Dirty to Clean, for a living wrapper, only in reset().
C6_StateMachine ==
    /\ op \in {"new", "from"} => Clean(w)
    /\ [][/\ op' \in {"new", "from", "reset"} => Clean(w')
          /\ op' = "deref_mut" => Dirty(w')
          /\ (alive /\ alive' /\ Clean(w) /\ Dirty(w')) => op' = "deref_mut"
          /\ (alive /\ alive' /\ Dirty(w) /\ Clean(w')) => op' = "reset"
          /\ (Dirty(w) /\ op' \in {"deref", "deref_mut"}) => Dirty(w')
          /\ (Clean(w) /\ op' = "deref") => Clean(w')]_vars

\* A wrapper that went Clean, Dirty, Clean and is Dirty again.
C6_Witness ==
    /\ alive
    /\ op = "deref_mut"
    /\ pop = "reset"
    /\ periods = 2
    /\ Dirty(w)

\* C7 (read-only access): deref returns the live value and changes neither
\* field of the wrapper, Clean or Dirty, and clones nothing.
C7_DerefNoSideEffect ==
    [][op' = "deref" =>
           /\ ret' = Some(w.inner)
           /\ w' = w
           /\ clones' = clones
           /\ alive' = alive]_vars

\* Two reads in a row of a wrapper never accessed mutably: still Clean.
C7_Witness ==
    /\ op = "deref"
    /\ pop = "deref"
    /\ writes = 0
    /\ Clean(w)
    /\ clones = 0
    /\ ret = Some(orig)

\* C8 (unwrap): into_inner() returns the live value: on a Dirty wrapper the
\* value last written, whatever the stash holds.
C8_IntoInnerReturnsLive ==
    op = "into_inner" =>
        /\ ret = Some(w.inner)
        /\ muts >= 1 => ret = lastw
        /\ muts = 0 => ret = Some(orig)

\* into_inner() on a wrapper that was mutated, reset and mutated again to a
\* value other than the stashed one.
C8_Witness ==
    /\ op = "into_inner"
    /\ pop = "deref_mut"
    /\ periods = 2
    /\ muts = 1
    /\ is_some(w.stash)
    /\ ret # w.stash
    /\ ret = lastw

\* C9 (P5): reset() wraps exactly what reset_inner() returns, the stash if
\* there is one and else the live value, in a wrapper with no stash, so that
\* reset().into_inner() = reset_inner().
C9_ResetIsResetInner ==
    [][/\ into_inner(reset(w)) = reset_inner(w)
       /\ op' = "reset" =>
              /\ into_inner(w') = reset_inner(w)
              /\ w'.inner = (IF is_some(w.stash) THEN w.stash[1] ELSE w.inner)
              /\ is_none(w'.stash)]_vars

\* reset() has just restored a value other than the one last written.
C9_Witness ==
    /\ op = "reset"
    /\ pop = "deref_mut"
    /\ writes >= 1
    /\ w.inner = orig
    /\ is_none(w.stash)
    /\ lastw # Some(w.inner)

\* C10 (P1, no-op until dirty): a wrapper built from v reads as v; reset()
\* on a wrapper never accessed mutably yields a wrapper equal to the one
\* built from v; reset_inner() on a Clean wrapper returns the live value.
C10_NoOpUntilDirty ==
    /\ op \in {"new", "from"} =>
           (w = [inner |-> orig, stash |-> None] /\ deref(w).out = orig)
    /\ (op = "deref" /\ writes = 0) => ret = Some(orig)
    /\ (op = "reset" /\ writes = 0) => w = [inner |-> orig, stash |-> None]
    /\ (op = "reset_inner" /\ muts = 0) =>
           (ret = Some(w.inner) /\ ret = Some(orig))

\* reset() right after a read of a wrapper built from a value that is not
\* T's default, with no mutable access in between.
C10_Witness ==
    /\ op = "reset"
    /\ pop = "deref"
    /\ nops = 2
    /\ writes = 0
    /\ orig # 0
    /\ w = [inner |-> orig, stash |-> None]

\* C11 (checkpoint recomputed in every dirty period): every reset() of a
\* wrapper built from v leaves the live value v and no stash, in whichever
\* cycle of mutations and reset it comes: it restores the live value held
\* when the dirty period began, and changes nothing when none began.
C11_CheckpointNeverStale ==
    [][op' = "reset" =>
           /\ w' = [inner |-> orig, stash |-> None]
           /\ lmuts >= 1 => Some(w'.inner) = lfirst
           /\ lmuts = 0 => w'.inner = w.inner]_vars

\* The reset() that ends the second dirty period, two values other than
\* the original having been written in that period.
C11_Witness ==
    /\ op = "reset"
    /\ pop = "deref_mut"
    /\ periods = 2
    /\ writes >= 3
    /\ lastw # Some(orig)
    /\ w = [inner |-> orig, stash |-> None]

\* C12 (P6, composite delegation): the composite's reset() restores every
\* field that was mutated to the value it held before its first mutation
\* and leaves it Clean, and leaves a field that was not mutated with the
\* live value it has, Clean; each field independently of the other.  A
\* mutation of one field does not touch the other.
C12_CompositeDelegation ==
    [][/\ op' = "complex_reset" =>
              \A f \in Fields :
                  complex'[f] =
                      [inner |-> IF is_some(cfirst[f]) THEN cfirst[f][1]
                                 ELSE complex[f].inner,
                       stash |-> None]
       /\ op' = "mut_first" => complex'.second = complex.second
       /\ op' = "mut_second" => complex'.first = complex.first]_vars

\* Only field first was mutated, to a value other than its own, and the
\* composite was then reset: first is restored, second is as built.
C12_Witness ==
    /\ op = "complex_reset"
    /\ pop = "mut_first"
    /\ nops = 2
    /\ is_some(cwrote.first)
    /\ cwrote.first # Some(original.first.inner)
    /\ is_none(cwrote.second)
    /\ complex.first = [inner |-> original.first.inner, stash |-> None]
    /\ complex.second = [inner |-> original.second.inner, stash |-> None]

\* C13 (tests::basic): after any interleaving of field mutations and
\* composite resets that ends with a reset, the composite equals, by its
\* derived equality, the original it was cloned from: the same live values
\* and no stash.
C13_ResetEqualsOriginal ==
    op = "complex_reset" =>
        /\ Complex_eq(complex, original)
        /\ \A f \in Fields :
               /\ complex[f].inner = original[f].inner
               /\ is_none(complex[f].stash)

\* Both fields were mutated to values other than their own, with a reset in
\* between, and the composite was reset at the end.
C13_Witness ==
    /\ op = "complex_reset"
    /\ nops >= 4
    /\ is_some(cwrote.first)
    /\ is_some(cwrote.second)
    /\ cwrote.first # Some(original.first.inner)
    /\ cwrote.second # Some(original.second.inner)
    /\ original.first.inner # original.second.inner
    /\ Complex_eq(complex, original)

\* C14 (round-trip law): what is written for a wrapper is the
\* representation of its live value and does not depend on its stash; a
\* successful deserialization yields a Clean wrapper; so reading back what
\* was written for a wrapper yields a Clean wrapper with that wrapper's live
\* value, whose reset_inner() is that live value.
C14_SerdeRoundTrip ==
    /\ is_some(wire) => wire[1] = T_serialize(sent[1].inner)
    /\ \A u \in Wrappers : u.inner = w.inner => serialize(u) = serialize(w)
    /\ op = "deserialize" => is_none(w.stash)
    /\ (op = "deserialize" /\ rt) =>
           /\ w = [inner |-> sent[1].inner, stash |-> None]
           /\ reset_inner(w) = sent[1].inner

\* A Dirty wrapper whose stash differs from its live value was written and
\* read back: the wrapper read resets to the live value, not to the stash.
C14_Witness ==
    /\ op = "deserialize"
    /\ pop = "serialize"
    /\ rt
    /\ is_some(sent)
    /\ is_some(sent[1].stash)
    /\ sent[1].stash # Some(sent[1].inner)
    /\ w.inner = sent[1].inner
    /\ reset_inner(w) # reset_inner(sent[1])

\* C15 (totality): in every reachable state every operation the wrapper
\* offers can be taken (read, mutable access with any value, into_inner,
\* reset_inner and reset on a living wrapper, Clean or Dirty; new and from
\* on any value), and each has completed with a result of its type: a
\* wrapper, or a value of T.  On a wrapper with no stash, reset_inner
\* returns the live value and reset wraps it.
C15_Total ==
    /\ (alive /\ nops < MaxOps) =>
           /\ ENABLED Deref
           /\ \A x \in Values : ENABLED DerefMut(x)
           /\ ENABLED IntoInner
           /\ ENABLED ResetInner
           /\ ENABLED Reset
    /\ (~alive /\ nops < MaxOps) =>
           \A v \in Values : ENABLED New(v) /\ ENABLED From(v)
    /\ \A v \in Values : new(v) \in Wrappers /\ from(v) \in Wrappers
    /\ w \in Wrappers
    /\ reset(w) \in Wrappers
    /\ deref_mut(w).self \in Wrappers
    /\ {deref(w).out, into_inner(w), reset_inner(w)} \subseteq Values
    /\ op \in {"deref", "into_inner", "reset_inner"} =>
           ret \in {Some(v) : v \in Values}
    /\ is_none(w.stash) =>
           /\ reset_inner(w) = w.inner
           /\ reset(w) = [inner |-> w.inner, stash |-> None]

\* reset_inner() has returned the live value of a wrapper that held no
\* stash, having been mutated and reset before.
C15_Witness ==
    /\ op = "reset_inner"
    /\ pop = "reset"
    /\ writes >= 1
    /\ lmuts = 0
    /\ is_none(w.stash)
    /\ ret = Some(w.inner)

\* C16 (derived equality): two wrappers are equal exactly when their live
\* values are equal and their stashes are both absent or both present and
\* equal.  So a wrapper built from v that has been accessed mutably and
\* whose live value is v is Dirty and unequal to new(v), though both read
\* as v; it equals new(v) exactly when no mutable access has occurred since
\* it was built or last reset, as after reset().
C16_EqualityComparesStash ==
    /\ \A u \in Wrappers : ResettableWrapper_eq(w, u) <=> (w = u)
    /\ (lmuts >= 1 /\ w.inner = orig) =>
           /\ is_some(w.stash)
           /\ ~ResettableWrapper_eq(w, new(orig))
           /\ deref(w).out = deref(new(orig)).out
    /\ ResettableWrapper_eq(w, new(orig)) <=> (w.inner = orig /\ lmuts = 0)
    /\ op = "reset" => ResettableWrapper_eq(w, new(orig))

\* A wrapper built from v, written to another value and then to v again:
\* it reads as v and is unequal to new(v).
C16_Witness ==
    /\ alive
    /\ op = "deref_mut"
    /\ pop = "deref_mut"
    /\ nops = 2
    /\ lmuts = 2
    /\ w = [inner |-> orig, stash |-> Some(orig)]
    /\ ~ResettableWrapper_eq(w, new(orig))

\* C17 (derived Clone): b = a.clone() has a's live value and a's stash, so
\* the clone of a Dirty wrapper is Dirty, with no mutable access to it, and
\* its reset_inner() is a's; the clone leaves a as it is, and afterwards a
\* mutation or reset of either wrapper leaves the other as it is.
C17_CloneCopiesStash ==
    [][/\ op' = "clone_b" =>
              /\ pair'.a = pair.a
              /\ pair'.b.inner = pair.a.inner
              /\ pair'.b.stash = pair.a.stash
              /\ pmuts'.b = 0
              /\ reset_inner(pair'.b) = reset_inner(pair.a)
       /\ op' \in {"mut_b", "reset_b"} => pair'.a = pair.a
       /\ op' \in {"mut_a", "reset_a"} => pair'.b = pair.b]_vars

\* b was cloned from a Dirty a and then written to: a is as it was when
\* cloned, b holds a's stash and another live value.
C17_Witness ==
    /\ op = "mut_b"
    /\ pop = "clone_b"
    /\ is_some(psrc)
    /\ is_some(psrc[1].stash)
    /\ psrc[1].stash # Some(psrc[1].inner)
    /\ pair.a = psrc[1]
    /\ pmuts.b = 1
    /\ pair.b.stash = pair.a.stash
    /\ pair.b.inner # pair.a.inner

\* The observations of a wrapper x that the claim says do not show its
\* stash: read, into_inner, Debug text, serialization, and the live value
\* after a mutable access that writes any one value.
SameLiveObservations(x, y) ==
    /\ deref(x).out = deref(y).out
    /\ into_inner(x) = into_inner(y)
    /\ fmt(x) = fmt(y)
    /\ serialize(x) = serialize(y)
    /\ \A v \in Values :
           assign(deref_mut(x).self, v).inner = assign(deref_mut(y).self, v).inner

\* The remaining observations but reset, reset_inner and equality: the
\* derived ordering, against any wrapper.
SameOrdering(x, y) ==
    \A u \in Wrappers : ResettableWrapper_cmp(x, u) = ResettableWrapper_cmp(y, u)

\* C18, as stated: two wrappers with equal live values and different
\* stashes are told apart by reset, reset_inner and equality only: every
\* other observation of them is the same.
C18_AsStated ==
    (pair.a.inner = pair.b.inner /\ pair.a.stash # pair.b.stash) =>
        /\ SameLiveObservations(pair.a, pair.b)
        /\ SameOrdering(pair.a, pair.b)

\* C18, amended: for two wrappers with equal live values and different
\* stashes, read, into_inner, Debug text, serialization and the live value
\* after a mutable access with the same write are the same; equality and
\* the derived ordering tell them apart, and reset and reset_inner do when
\* the values they restore differ.
C18_NonInterference ==
    (pair.a.inner = pair.b.inner /\ pair.a.stash # pair.b.stash) =>
        /\ SameLiveObservations(pair.a, pair.b)
        /\ ~ResettableWrapper_eq(pair.a, pair.b)
        /\ ResettableWrapper_cmp(pair.a, pair.b) # "Equal"
        /\ reset_inner(pair.a) # reset_inner(pair.b) =>
               reset(pair.a) # reset(pair.b)

\* Two wrappers with the same live value, one Clean and one Dirty with
\* another value stashed: they reset to different values.
C18_Witness ==
    /\ pair.a.inner = pair.b.inner
    /\ is_none(pair.a.stash)
    /\ is_some(pair.b.stash)
    /\ pair.b.stash # Some(pair.b.inner)
    /\ psrc = None
    /\ reset_inner(pair.a) # reset_inner(pair.b)
    /\ fmt(pair.a) = fmt(pair.b)

====
